---- MODULE Spec2Model ----
(***************************************************************************)
(* A model of clients/python/tinystan/model.py: the Model class that loads *)
(* a TinyStan shared library and drives it through sample, pathfinder,     *)
(* optimize and laplace_sample.  The native library is the environment:    *)
(* every value it returns is a nondeterministic choice.                    *)
(***************************************************************************)
EXTENDS Integers, Sequences, FiniteSets, TLC

\* ------------------------------------------------------------------ bounds
MaxChains == 2      \* num_chains / num_paths range over 0..MaxChains
MaxSamples == 2     \* num_samples, num_draws, num_multi_draws range over 0..MaxSamples
MaxParams == 2      \* the native free-parameter count ranges over 0..MaxParams
MaxInits == 2       \* a list of inits has 0..MaxInits elements
MaxSessions == 2    \* native model handles constructed in one behaviour
MaxModels == 2      \* Model objects constructed in one behaviour
SeedBits == 4       \* seeds are SeedBits wide here, 32 bits wide in the program

\* --------------------------------------------------------- program constants
\* The diagnostic names, as the code points of their characters.
lp__ == <<108, 112, 95, 95>>
accept_stat__ == <<97, 99, 99, 101, 112, 116, 95, 115, 116, 97, 116, 95, 95>>
stepsize__ == <<115, 116, 101, 112, 115, 105, 122, 101, 95, 95>>
treedepth__ == <<116, 114, 101, 101, 100, 101, 112, 116, 104, 95, 95>>
n_leapfrog__ == <<110, 95, 108, 101, 97, 112, 102, 114, 111, 103, 95, 95>>
divergent__ == <<100, 105, 118, 101, 114, 103, 101, 110, 116, 95, 95>>
energy__ == <<101, 110, 101, 114, 103, 121, 95, 95>>
lp_approx__ == <<108, 112, 95, 97, 112, 112, 114, 111, 120, 95, 95>>
log_p__ == <<108, 111, 103, 95, 112, 95, 95>>
log_q__ == <<108, 111, 103, 95, 113, 95, 95>>

HMC_SAMPLER_VARIABLES ==
    <<lp__, accept_stat__, stepsize__, treedepth__, n_leapfrog__, divergent__,
      energy__>>

PATHFINDER_VARIABLES == <<lp_approx__, lp__>>

OPTIMIZE_VARIABLES == <<lp__>>

LAPLACE_VARIABLES == <<log_p__, log_q__>>

\* class HMCMetric(Enum)
UNIT == 0
DENSE == 1
DIAGONAL == 2
HMCMetric == {UNIT, DENSE, DIAGONAL}

\* _exception_types = [RuntimeError, ValueError, KeyboardInterrupt]
\* (0-based in the source, 1-based here: index exception_type + 1)
exception_types == <<"RuntimeError", "ValueError", "KeyboardInterrupt">>

\* 2**32, the width of the seed, scaled to SeedBits bits
U32 == 2 ^ SeedBits

\* ------------------------------------------------------------ text helpers
\* Characters are code points, byte strings are sequences of 0..255.
COMMA == 44
Whitespace == {9, 10, 11, 12, 13, 28, 29, 30, 31, 32}

\* str.encode(): UTF-8 of one code point (below U+0800)
EncodeChar(c) ==
    IF c < 128 THEN <<c>> ELSE <<192 + (c \div 64), 128 + (c % 64)>>

RECURSIVE Encode(_)
Encode(s) == IF s = <<>> THEN <<>> ELSE EncodeChar(Head(s)) \o Encode(Tail(s))

\* bytes.decode("utf-8") of well-formed input (below U+0800)
RECURSIVE Decode(_)
Decode(b) ==
    IF b = <<>> THEN <<>>
    ELSE IF Head(b) < 128 THEN <<Head(b)>> \o Decode(Tail(b))
    ELSE <<(Head(b) - 192) * 64 + (b[2] - 128)>> \o Decode(Tail(Tail(b)))

\* str.strip()
RECURSIVE LStrip(_)
LStrip(s) ==
    IF s # <<>> /\ Head(s) \in Whitespace THEN LStrip(Tail(s)) ELSE s

RECURSIVE RStrip(_)
RStrip(s) ==
    IF s # <<>> /\ s[Len(s)] \in Whitespace
    THEN RStrip(SubSeq(s, 1, Len(s) - 1)) ELSE s

Strip(s) == RStrip(LStrip(s))

\* s.split(d): the segments of s between occurrences of d; never empty
RECURSIVE SplitFrom(_, _, _)
SplitFrom(s, d, cur) ==
    IF s = <<>> THEN <<cur>>
    ELSE IF Head(s) = d THEN <<cur>> \o SplitFrom(Tail(s), d, <<>>)
    ELSE SplitFrom(Tail(s), d, Append(cur, Head(s)))

Split(s, d) == SplitFrom(s, d, <<>>)

\* d.join(parts)
RECURSIVE Join(_, _)
Join(parts, d) ==
    IF parts = <<>> THEN <<>>
    ELSE IF Len(parts) = 1 THEN parts[1]
    ELSE parts[1] \o <<d>> \o Join(Tail(parts), d)

\* ------------------------------------------------------------ array helpers
RECURSIVE Prod(_)
Prod(shape) == IF shape = <<>> THEN 1 ELSE Head(shape) * Prod(Tail(shape))

RECURSIVE Tile(_, _)
Tile(data, n) == IF n = 0 THEN <<>> ELSE data \o Tile(data, n - 1)

\* an ndarray: its shape and its elements in row-major order
Array(shape) == [shape |-> shape, data |-> [i \in 1..Prod(shape) |-> i]]

\* np.zeros(shape): only the size of the buffer matters to the binding
Zeros(shape) == [shape |-> shape, size |-> Prod(shape)]

NoneArray == [shape |-> <<>>, data |-> <<>>]
NoneBuf == [shape |-> <<>>, size |-> 0]

\* np.repeat(a[np.newaxis], n, axis=0)
Repeat(a, n) == [shape |-> <<n>> \o a.shape, data |-> Tile(a.data, n)]

\* ----------------------------------------------------- caller-supplied values
\* What the caller may hand over as data, inits or a Laplace mode.  kind is the
\* Python type: "none" (None), "str", "path" (os.PathLike), "dict", "list",
\* "output" (a StanOutput), "array" (an np.ndarray).
Value(kind, val, readable, items, shape) ==
    [kind |-> kind, val |-> val, readable |-> readable, items |-> items,
     shape |-> shape]

None == Value("none", <<>>, TRUE, <<>>, <<>>)
Str(s) == Value("str", s, TRUE, <<>>, <<>>)
Path(s, readable) == Value("path", s, readable, <<>>, <<>>)
\* a dict {key: digit, ...}, flattened to <<key, digit, ...>>
Dict(kv) == Value("dict", kv, TRUE, <<>>, <<>>)
List(items) == Value("list", <<>>, TRUE, items, <<>>)
\* a StanOutput whose data has the given shape
Output(shape) == Value("output", <<>>, TRUE, <<>>, shape)
\* an np.ndarray of the given shape
NdArray(shape) == Value("array", <<>>, TRUE, <<>>, shape)

\* stanio.dump_stan_json: the JSON text of a dict, as json.dumps writes it
RECURSIVE DumpEntries(_)
DumpEntries(kv) ==
    IF kv = <<>> THEN <<>>
    ELSE <<34, kv[1], 34, 58, 32, 48 + kv[2]>>
         \o (IF Len(kv) > 2 THEN <<44, 32>> ELSE <<>>)
         \o DumpEntries(Tail(Tail(kv)))

dump_stan_json(kv) == <<123>> \o DumpEntries(kv) \o <<125>>

\* encode_stan_json: the bytes sent to C++, or a failure of validate_readable
encode_stan_json(data) ==
    IF data.kind = "path"
    THEN IF data.readable
         THEN [ok |-> TRUE, bytes |-> Encode(data.val)]
         ELSE [ok |-> FALSE, bytes |-> <<>>]
    ELSE IF data.kind = "str"
    THEN [ok |-> TRUE, bytes |-> Encode(data.val)]
    ELSE [ok |-> TRUE, bytes |-> Encode(dump_stan_json(data.val))]

\* StanOutput.create_inits(chains, seed): one dict of initial values per chain,
\* derived from the seed
create_inits(chains, seed) ==
    [c \in 1..chains |-> Dict(<<97, (seed + c) % 10>>)]

\* _encode_inits joining the serializations with nothing between them
encode_inits_no_sep(inits, chains, seed, sep) ==
    IF inits.kind = "none"
    THEN [ok |-> TRUE, none |-> TRUE, encoded |-> <<>>]
    ELSE LET expanded == IF inits.kind = "output"
                         THEN List(create_inits(chains, seed))
                         ELSE inits
         IN  IF expanded.kind = "list"
             THEN LET parts == [i \in 1..Len(expanded.items) |->
                                   encode_stan_json(expanded.items[i])]
                      RECURSIVE Concat(_)
                      Concat(ps) == IF ps = <<>> THEN <<>>
                                    ELSE ps[1].bytes \o Concat(Tail(ps))
                  IN  IF \E i \in 1..Len(parts) : ~parts[i].ok
                      THEN [ok |-> FALSE, none |-> FALSE, encoded |-> <<>>]
                      ELSE [ok |-> TRUE, none |-> FALSE, encoded |-> Concat(parts)]
             ELSE LET one == encode_stan_json(expanded)
                  IN  [ok |-> one.ok, none |-> FALSE, encoded |-> one.bytes]

\* Model._encode_inits with self.sep = sep.  encoded is the payload handed to
\* the native call; none says that the payload is None (a null pointer).
encode_inits(inits, chains, seed, sep) ==
    IF inits.kind = "none"
    THEN [ok |-> TRUE, none |-> TRUE, encoded |-> <<>>]
    ELSE LET expanded == IF inits.kind = "output"
                         THEN List(create_inits(chains, seed))
                         ELSE inits
         IN  IF expanded.kind = "list"
             THEN LET parts == [i \in 1..Len(expanded.items) |->
                                   encode_stan_json(expanded.items[i])]
                  IN  IF \E i \in 1..Len(parts) : ~parts[i].ok
                      THEN [ok |-> FALSE, none |-> FALSE, encoded |-> <<>>]
                      ELSE [ok |-> TRUE, none |-> FALSE,
                            encoded |-> Join([i \in 1..Len(parts) |->
                                                 parts[i].bytes], sep)]
             ELSE LET one == encode_stan_json(expanded)
                  IN  [ok |-> one.ok, none |-> FALSE, encoded |-> one.bytes]

\* preprocess_laplace_inputs: (mode_array, mode_json), or its ValueError
preprocess_laplace_inputs(mode) ==
    IF mode.kind = "output" /\ Len(mode.shape) # 1
    THEN [ok |-> FALSE, msg |-> "Laplace can only be used with Optimization output",
          mode_array |-> None, mode_json |-> <<>>, json_none |-> TRUE]
    ELSE LET m == IF mode.kind = "output"
                  THEN NdArray(<<IF mode.shape[1] > 0 THEN mode.shape[1] - 1 ELSE 0>>)
                  ELSE mode
         IN  IF m.kind = "array"
             THEN [ok |-> TRUE, msg |-> "", mode_array |-> m, mode_json |-> <<>>,
                   json_none |-> TRUE]
             ELSE LET j == encode_stan_json(m)
                  IN  [ok |-> j.ok, msg |-> "validate_readable", mode_array |-> None,
                       mode_json |-> j.bytes, json_none |-> FALSE]

\* Model._get_parameter_names on the bytes tinystan_model_param_names returns
get_parameter_names(native_names) ==
    LET comma_separated == Strip(Decode(native_names))
    IN  IF comma_separated = <<>> THEN <<>> ELSE Split(comma_separated, COMMA)

\* ------------------------------------------------------------------ state
VARIABLES
    nModels,      \* Model objects constructed so far
    nCapture,     \* those constructed with capture_stan_prints = True
    nRegistered,  \* calls of tinystan_set_print_callback
    sep,          \* what tinystan_separator_char returns (self.sep)
    handles,      \* handles[h]: destructor calls on the h-th constructed handle
    pc,           \* where the running invoker is
    alg,          \* the running invoker
    args,         \* its arguments
    seed,         \* its resolved seed
    model,        \* the handle _get_model yielded (0: none)
    native,       \* what the native model behind the handle reports
    rc,           \* the return code of the native algorithm call
    err,          \* the error slot of the last native call
    loc,          \* the invoker's locals
    call,         \* the arguments the native entry points were given
    exc,          \* the exception in flight, or the one the invoker ended with
    result,       \* the StanOutput returned
    trace         \* the native calls of this invocation, in order

lib == <<nModels, nCapture, nRegistered, sep>>
inv == <<pc, alg, args, seed, model, native, rc, err, loc, call, exc, result, trace>>
vars == <<nModels, nCapture, nRegistered, sep, handles, pc, alg, args, seed, model,
          native, rc, err, loc, call, exc, result, trace>>

created == Len(handles)
destroyed == Cardinality({h \in 1..Len(handles) : handles[h] > 0})
Live(h) == h \in 1..Len(handles) /\ handles[h] = 0

\* ------------------------------------------------------------- exceptions
Exc(type, msg, code) == [type |-> type, msg |-> msg, code |-> code]
NoExc == Exc("none", "", 0)
ValueError(msg) == Exc("ValueError", msg, 0)
\* what validate_readable raises for an unreadable path
NotReadable == Exc("validate_readable", "not readable", 0)

\* ------------------------------------------------------------ native side
NoSeed == -1
\* ctypes.pointer(ctypes.c_void_p()): an empty error slot
NullErr == [contents |-> 0, type |-> 0, msg |-> "", frees |-> 0]
\* the error objects a failing native call may leave in the slot
NativeErrors ==
    {[contents |-> 1, type |-> t, msg |-> "native message", frees |-> 0] : t \in 0..2}
\* non-zero return codes of the algorithm entry points
FailureCodes == {1, 2}
\* (rc, error slot) of an algorithm call: success, a failure that leaves an error
\* object, or a failure that leaves none
CallOutcomes ==
    {<<0, NullErr>>} \cup {<<1, e>> : e \in NativeErrors}
                     \cup {<<c, NullErr>> : c \in FailureCodes}

\* tinystan_model_param_names for a model with n names: "a,b,..."
RECURSIVE NameBytes(_)
NameBytes(n) ==
    IF n = 0 THEN <<>>
    ELSE IF n = 1 THEN <<97>>
    ELSE NameBytes(n - 1) \o <<COMMA, 96 + n>>

\* The native models: nfree unconstrained parameters, and one name per
\* constrained parameter, transformed parameter or generated quantity.
NativeModels ==
    {[nfree |-> p, nnames |-> p + extra, names |-> NameBytes(p + extra)] :
        p \in 0..MaxParams, extra \in 0..1}
NoNative == [nfree |-> 0, nnames |-> 0, names |-> <<>>]

\* np.random.randint(0, 2**32 - 1, dtype=np.uint32)
rand_u32 == {0, U32 - 2}

\* tinystan_separator_char: the ASCII file separator
Separators == {28}

\* ------------------------------------------------------- arguments drawn
\* Keyword defaults of the invokers, scaled into the bounds; seed is given so
\* that only the seed cases below draw from rand_u32.
BaseArgs ==
    [data |-> Str(<<>>), seed |-> 1, inits |-> None,
     num_chains |-> 1, num_warmup |-> 0, num_samples |-> 1, save_warmup |-> FALSE,
     metric |-> DIAGONAL, init_inv_metric |-> NoneArray, save_metric |-> FALSE,
     num_paths |-> 1, num_draws |-> 1, num_multi_draws |-> 1,
     calculate_lp |-> TRUE, psis_resample |-> TRUE,
     mode |-> Dict(<<97, 1>>), save_hessian |-> FALSE]

MaxDim == IF MaxChains > MaxParams THEN MaxChains ELSE MaxParams
Shapes ==
    UNION {[1..n -> 1..MaxDim] : n \in 1..3}

SeedArgs == {[BaseArgs EXCEPT !.seed = s] : s \in {NoSeed, 0, U32 - 1}}

DataArgs == {[BaseArgs EXCEPT !.data = Path(<<100>>, FALSE)]}

InitsValues ==
    {Str(<<123, 125>>), Path(<<105>>, FALSE), Output(<<2, 3>>),
     List(<<Dict(<<97, 1>>), Str(<<123, 125>>)>>),
     List(<<Path(<<105>>, FALSE)>>)}

InitsArgs == {[BaseArgs EXCEPT !.inits = i] : i \in InitsValues}

\* num_warmup: negative, zero, positive
WarmupValues == {-1, 0, 3}

SampleArgs ==
    {[BaseArgs EXCEPT !.num_chains = c, !.num_warmup = w, !.num_samples = n,
                      !.save_warmup = sw] :
        c \in 0..MaxChains, w \in WarmupValues, n \in 0..MaxSamples,
        sw \in BOOLEAN}
    \cup {[BaseArgs EXCEPT !.num_chains = MaxChains, !.metric = m,
                           !.init_inv_metric = Array(sh)] :
            m \in HMCMetric, sh \in Shapes}
    \cup {[BaseArgs EXCEPT !.num_chains = MaxChains, !.metric = m,
                           !.save_metric = TRUE] : m \in HMCMetric}
    \cup {[a EXCEPT !.num_chains = MaxChains] : a \in InitsArgs}
    \cup SeedArgs \cup DataArgs

PathfinderArgs ==
    {[BaseArgs EXCEPT !.num_draws = d, !.num_paths = c, !.num_multi_draws = n] :
        d \in 0..MaxSamples, c \in 0..MaxChains, n \in 0..MaxSamples}
    \cup {[BaseArgs EXCEPT !.num_draws = MaxSamples, !.num_paths = MaxChains,
                           !.calculate_lp = lp, !.psis_resample = psis] :
            lp \in BOOLEAN, psis \in BOOLEAN}
    \cup {[a EXCEPT !.num_paths = MaxChains] : a \in InitsArgs}
    \cup SeedArgs \cup DataArgs

OptimizeArgs == InitsArgs \cup SeedArgs \cup DataArgs \cup {BaseArgs}

ModeValues ==
    {NdArray(<<n>>) : n \in 0..(MaxParams + 2)}
    \cup {Output(<<n>>) : n \in 0..(MaxParams + 2)}
    \cup {Output(<<1, 1, 3>>), Dict(<<97, 1>>), Path(<<109>>, FALSE)}

LaplaceArgs ==
    {[BaseArgs EXCEPT !.mode = m] : m \in ModeValues}
    \cup {[BaseArgs EXCEPT !.num_draws = d, !.save_hessian = h] :
            d \in 0..MaxSamples, h \in BOOLEAN}
    \cup SeedArgs \cup DataArgs

\* --------------------------------------------------------------- initially
NoLoc ==
    [model_params |-> 0, param_names |-> <<>>, out |-> NoneBuf,
     init_inv_metric |-> NoneArray, metric_out |-> NoneBuf,
     hessian_out |-> NoneBuf, mode_array |-> None, mode_json |-> <<>>,
     mode_json_none |-> TRUE, output_size |-> 0]

NoCall ==
    [made |-> FALSE, fn |-> "", model |-> 0, live |-> FALSE,
     seed_create |-> NoSeed, seed_inits |-> NoSeed, seed |-> NoSeed,
     inits |-> <<>>, inits_none |-> TRUE, out |-> NoneBuf, out_size |-> 0,
     init_inv_metric |-> NoneArray, metric_out |-> NoneBuf,
     hessian_out |-> NoneBuf, mode_array |-> None, mode_json |-> <<>>,
     mode_json_none |-> TRUE]

NoResult == [returned |-> FALSE, param_names |-> <<>>, out |-> NoneBuf,
             metric |-> NoneBuf, hessian |-> NoneBuf]

Init ==
    /\ nModels = 0
    /\ nCapture = 0
    /\ nRegistered = 0
    /\ sep \in Separators
    /\ handles = <<>>
    /\ pc = "idle"
    /\ alg = "none"
    /\ args = BaseArgs
    /\ seed = NoSeed
    /\ model = 0
    /\ native = NoNative
    /\ rc = 0
    /\ err = NullErr
    /\ loc = NoLoc
    /\ call = NoCall
    /\ exc = NoExc
    /\ result = NoResult
    /\ trace = <<>>

\* Model.__init__ registering the callback whatever capture_stan_prints is
ModelInitAlwaysRegisters ==
    /\ pc = "idle"
    /\ nModels < MaxModels
    /\ \E capture_stan_prints \in BOOLEAN :
          /\ nModels' = nModels + 1
          /\ nCapture' = nCapture + (IF capture_stan_prints THEN 1 ELSE 0)
          /\ nRegistered' = nRegistered + 1
    /\ UNCHANGED <<sep, handles>>
    /\ UNCHANGED inv

\* ------------------------------------------------------------ Model.__init__
\* Loads the library (ctypes.CDLL), binds the entry points, reads the separator
\* and, with capture_stan_prints, registers print_callback.
ModelInit ==
    /\ pc = "idle"
    /\ nModels < MaxModels
    /\ \E capture_stan_prints \in BOOLEAN :
          /\ nModels' = nModels + 1
          /\ nCapture' = nCapture + (IF capture_stan_prints THEN 1 ELSE 0)
          /\ nRegistered' = nRegistered + (IF capture_stan_prints THEN 1 ELSE 0)
    /\ UNCHANGED <<sep, handles>>
    /\ UNCHANGED inv

\* _raise_for_error without the test of err.contents: a null error object is
\* read and freed like a reported one
raise_for_error_no_null_check(code, e) ==
    IF code # 0
    THEN [exc |-> Exc(exception_types[e.type + 1], e.msg, 0),
          err |-> [e EXCEPT !.frees = @ + 1],
          events |-> <<"get_error_message", "get_error_type", "free_error",
                       "raise">>]
    ELSE [exc |-> NoExc, err |-> e, events |-> <<>>]

\* _raise_for_error without the call of tinystan_free_stan_error
raise_for_error_no_free(code, e) ==
    IF code # 0
    THEN IF e.contents # 0
         THEN [exc |-> Exc(exception_types[e.type + 1], e.msg, 0),
               err |-> e,
               events |-> <<"get_error_message", "get_error_type", "raise">>]
         ELSE [exc |-> Exc("RuntimeError", "Unknown error, function returned code",
                           code),
               err |-> e, events |-> <<"raise">>]
    ELSE [exc |-> NoExc, err |-> e, events |-> <<>>]

\* --------------------------------------------------------- _raise_for_error
\* The exception raised (NoExc: none), the error slot afterwards and the native
\* calls made, a final "raise" marking the raise statement.
raise_for_error(code, e) ==
    IF code # 0
    THEN IF e.contents # 0
         THEN [exc |-> Exc(exception_types[e.type + 1], e.msg, 0),
               err |-> [e EXCEPT !.frees = @ + 1],
               events |-> <<"get_error_message", "get_error_type", "free_error",
                            "raise">>]
         ELSE [exc |-> Exc("RuntimeError", "Unknown error, function returned code",
                           code),
               err |-> e, events |-> <<"raise">>]
    ELSE [exc |-> NoExc, err |-> e, events |-> <<>>]

\* ------------------------------------------------------------ starting a call
\* seed = seed or rand_u32(): the values the resolved seed may take
SeedOr(s) == IF s = NoSeed \/ s = 0 THEN rand_u32 ELSE {s}

\* An invoker begins: its arguments are bound and checked and its seed is
\* resolved.  early is the exception of the checks made before the seed is
\* resolved, late that of the checks made after it.
Begin(name, a, early, late) ==
    /\ pc = "idle"
    /\ nModels >= 1
    /\ created < MaxSessions
    /\ alg' = name
    /\ args' = a
    /\ exc' = IF early # NoExc THEN early ELSE late
    /\ IF early # NoExc THEN seed' = NoSeed ELSE seed' \in SeedOr(a.seed)
    /\ pc' = IF early # NoExc \/ late # NoExc THEN "done" ELSE "acquire"
    /\ UNCHANGED <<handles, lib, model, native, rc, err, call, result, trace>>

\* The invoker's frame is gone: it returned its result or raised its exception.
ReturnToCaller ==
    /\ pc = "done"
    /\ pc' = "idle"
    /\ alg' = "none"
    /\ args' = BaseArgs
    /\ seed' = NoSeed
    /\ model' = 0
    /\ native' = NoNative
    /\ rc' = 0
    /\ err' = NullErr
    /\ loc' = NoLoc
    /\ call' = NoCall
    /\ exc' = NoExc
    /\ result' = NoResult
    /\ trace' = <<>>
    /\ UNCHANGED <<handles, lib>>

\* ---------------------------------------------------------------- _get_model
\* _get_model with the constructor call and its check inside the try: a failed
\* construction runs the finally clause
CreateFailedInsideTry(e) ==
    LET r == raise_for_error(1, e)
    IN  /\ model' = 0
        /\ err' = r.err
        /\ call' = [call EXCEPT !.seed_create = seed]
        /\ trace' = trace \o <<"create_model">> \o r.events
        /\ exc' = r.exc
        /\ pc' = "exit"
        /\ UNCHANGED <<handles, native>>

\* The native constructor returned NULL, leaving e in the error slot:
\* self._raise_for_error(not model, err) raises before the try is entered.
CreateFailed(e) ==
    LET r == raise_for_error(1, e)
    IN  /\ model' = 0
        /\ err' = r.err
        /\ call' = [call EXCEPT !.seed_create = seed]
        /\ trace' = trace \o <<"create_model">> \o r.events
        /\ exc' = r.exc
        /\ pc' = "done"
        /\ UNCHANGED <<handles, native>>

\* Entering the with block: encode the data, call the native constructor and
\* translate its failure.  A non-null handle is yielded to the body.
GetModelEnter ==
    /\ pc = "acquire"
    /\ LET data == encode_stan_json(args.data)
       IN  IF ~data.ok
           THEN /\ exc' = NotReadable
                /\ pc' = "done"
                /\ UNCHANGED <<handles, model, native, err, call, trace>>
           ELSE \/ \E m \in NativeModels :
                      /\ handles' = Append(handles, 0)
                      /\ model' = Len(handles) + 1
                      /\ native' = m
                      /\ err' = NullErr
                      /\ call' = [call EXCEPT !.seed_create = seed]
                      /\ trace' = trace \o <<"create_model">>
                      /\ exc' = raise_for_error(0, NullErr).exc
                      /\ pc' = "setup"
                \/ \E e \in NativeErrors \cup {NullErr} : CreateFailed(e)
    /\ UNCHANGED <<lib, alg, args, seed, rc, loc, result>>

\* _get_model without try/finally: the handle is destroyed on normal exit only
GetModelExitNoFinally ==
    /\ pc = "exit"
    /\ IF exc = NoExc
       THEN /\ handles' = [handles EXCEPT ![model] = @ + 1]
            /\ trace' = trace \o <<"destroy_model">>
       ELSE UNCHANGED <<handles, trace>>
    /\ pc' = IF exc = NoExc THEN "return" ELSE "done"
    /\ UNCHANGED <<lib, alg, args, seed, model, native, rc, err, loc, call, exc,
                   result>>

\* Leaving the with block, normally or with an exception in flight: the
\* finally clause destroys the handle.
GetModelExit ==
    /\ pc = "exit"
    /\ handles' = [handles EXCEPT ![model] = @ + 1]
    /\ trace' = trace \o <<"destroy_model">>
    /\ pc' = IF exc = NoExc THEN "return" ELSE "done"
    /\ UNCHANGED <<lib, alg, args, seed, model, native, rc, err, loc, call, exc,
                   result>>

\* self._raise_for_error(rc, err) placed after the with block instead of inside
\* it: the handle is destroyed first and the return code is checked afterwards
CheckReturnCodeAfterExit ==
    /\ pc = "check"
    /\ LET r == raise_for_error(rc, err)
       IN  /\ exc' = r.exc
           /\ err' = r.err
           /\ trace' = trace \o <<"destroy_model">> \o r.events
           /\ pc' = IF r.exc = NoExc THEN "return" ELSE "done"
    /\ handles' = [handles EXCEPT ![model] = @ + 1]
    /\ UNCHANGED <<lib, alg, args, seed, model, native, rc, loc, call, result>>

\* self._raise_for_error(rc, err) after the native algorithm call
CheckReturnCode ==
    /\ pc = "check"
    /\ LET r == raise_for_error(rc, err)
       IN  /\ exc' = r.exc
           /\ err' = r.err
           /\ trace' = trace \o r.events
    /\ pc' = "exit"
    /\ UNCHANGED <<lib, handles, alg, args, seed, model, native, rc, loc, call,
                   result>>

\* The native algorithm call: its arguments are recorded, its return code and
\* error slot are the library's choice.
NativeCall(fn, inits, passed) ==
    /\ call' = [passed EXCEPT !.made = TRUE, !.fn = fn, !.model = model,
                              !.live = Live(model), !.seed = seed,
                              !.seed_create = call.seed_create,
                              !.seed_inits = IF inits.kind = "output"
                                             THEN seed ELSE NoSeed]
    /\ trace' = trace \o <<fn>>
    /\ \E o \in CallOutcomes :
          /\ rc' = o[1]
          /\ err' = o[2]
    /\ pc' = "check"
    /\ exc' = exc

\* ---------------------------------------------------------------- sample
\* sample without its num_chains check
SampleValidateNoChains(a) ==
    IF a.num_warmup < 0 THEN ValueError("num_warmup must be non-negative")
    ELSE IF a.num_samples < 1 THEN ValueError("num_samples must be at least 1")
    ELSE NoExc

SampleValidate(a) ==
    IF a.num_chains < 1 THEN ValueError("num_chains must be at least 1")
    ELSE IF a.num_warmup < 0 THEN ValueError("num_warmup must be non-negative")
    ELSE IF a.num_samples < 1 THEN ValueError("num_samples must be at least 1")
    ELSE NoExc

Sample ==
    \E a \in SampleArgs :
        /\ Begin("sample", a, SampleValidate(a), NoExc)
        /\ loc' = NoLoc

\* (model_params, model_params) if metric == HMCMetric.DENSE else (model_params,)
MetricSize(metric, model_params) ==
    IF metric = DENSE THEN <<model_params, model_params>> ELSE <<model_params>>

\* the checks of init_inv_metric without the np.repeat over the chains
InitInvMetricNoRepeat(init_inv_metric, num_chains, metric_size) ==
    IF init_inv_metric = NoneArray
    THEN [ok |-> TRUE, value |-> NoneArray]
    ELSE IF init_inv_metric.shape = metric_size
    THEN [ok |-> TRUE, value |-> init_inv_metric]
    ELSE IF init_inv_metric.shape = <<num_chains>> \o metric_size
    THEN [ok |-> TRUE, value |-> init_inv_metric]
    ELSE [ok |-> FALSE, value |-> init_inv_metric]

\* the checks of init_inv_metric: the array passed on, or a failure
InitInvMetric(init_inv_metric, num_chains, metric_size) ==
    IF init_inv_metric = NoneArray
    THEN [ok |-> TRUE, value |-> NoneArray]
    ELSE IF init_inv_metric.shape = metric_size
    THEN [ok |-> TRUE, value |-> Repeat(init_inv_metric, num_chains)]
    ELSE IF init_inv_metric.shape = <<num_chains>> \o metric_size
    THEN [ok |-> TRUE, value |-> init_inv_metric]
    ELSE [ok |-> FALSE, value |-> init_inv_metric]

\* the shape of out with the warmup draws counted whatever save_warmup is
SampleShapeAllWarmup(num_chains, num_warmup, num_samples, save_warmup, num_params) ==
    <<num_chains, num_samples + num_warmup, num_params>>

\* the shape of out
SampleShape(num_chains, num_warmup, num_samples, save_warmup, num_params) ==
    <<num_chains, num_samples + num_warmup * (IF save_warmup THEN 1 ELSE 0),
      num_params>>

\* The body of the with block up to the native call.
SampleSetup ==
    /\ pc = "setup" /\ alg = "sample"
    /\ LET model_params == native.nfree
           param_names == HMC_SAMPLER_VARIABLES \o get_parameter_names(native.names)
           num_params == Len(param_names)
           metric_size == MetricSize(args.metric, model_params)
           checked == InitInvMetric(args.init_inv_metric, args.num_chains,
                                    metric_size)
       IN  IF model_params = 0
           THEN /\ trace' = trace \o <<"num_free_params">>
                /\ loc' = [loc EXCEPT !.model_params = model_params]
                /\ exc' = ValueError("Model has no parameters to sample.")
                /\ pc' = "exit"
           ELSE /\ trace' = trace \o <<"num_free_params", "param_names">>
                /\ loc' = [loc EXCEPT
                              !.model_params = model_params,
                              !.param_names = param_names,
                              !.out = Zeros(SampleShape(args.num_chains,
                                        args.num_warmup, args.num_samples,
                                        args.save_warmup, num_params)),
                              !.init_inv_metric = checked.value,
                              !.metric_out =
                                  IF checked.ok /\ args.save_metric
                                  THEN Zeros(<<args.num_chains>> \o metric_size)
                                  ELSE NoneBuf]
                /\ exc' = IF checked.ok THEN NoExc
                          ELSE ValueError("Invalid initial metric size.")
                /\ pc' = IF checked.ok THEN "call" ELSE "exit"
    /\ UNCHANGED <<lib, handles, alg, args, seed, model, native, rc, err, call,
                   result>>

SampleCall ==
    /\ pc = "call" /\ alg = "sample"
    /\ LET inits == encode_inits(args.inits, args.num_chains, seed, sep)
       IN  IF ~inits.ok
           THEN /\ exc' = NotReadable
                /\ pc' = "exit"
                /\ UNCHANGED <<call, trace, rc, err>>
           ELSE NativeCall("sample", args.inits,
                    [call EXCEPT !.inits = inits.encoded,
                                 !.inits_none = inits.none,
                                 !.out = loc.out, !.out_size = loc.out.size,
                                 !.init_inv_metric = loc.init_inv_metric,
                                 !.metric_out = loc.metric_out])
    /\ UNCHANGED <<lib, handles, alg, args, seed, model, native, loc, result>>

SampleReturn ==
    /\ pc = "return" /\ alg = "sample"
    /\ result' = [NoResult EXCEPT !.returned = TRUE,
                                  !.param_names = loc.param_names,
                                  !.out = loc.out,
                                  !.metric = IF args.save_metric
                                             THEN loc.metric_out ELSE NoneBuf]
    /\ pc' = "done"
    /\ UNCHANGED <<lib, handles, alg, args, seed, model, native, rc, err, loc,
                   call, exc, trace>>

\* --------------------------------------------------------------- pathfinder
PathfinderValidate(a) ==
    IF a.num_draws < 1 THEN ValueError("num_draws must be at least 1")
    ELSE IF a.num_paths < 1 THEN ValueError("num_paths must be at least 1")
    ELSE IF a.num_multi_draws < 1
    THEN ValueError("num_multi_draws must be at least 1")
    ELSE NoExc

\* output_size
PathfinderOutputSize(a) ==
    IF a.calculate_lp /\ a.psis_resample
    THEN a.num_multi_draws
    ELSE a.num_draws * a.num_paths

Pathfinder ==
    \E a \in PathfinderArgs :
        /\ Begin("pathfinder", a, PathfinderValidate(a), NoExc)
        /\ loc' = IF PathfinderValidate(a) # NoExc THEN NoLoc
                  ELSE [NoLoc EXCEPT !.output_size = PathfinderOutputSize(a)]

PathfinderSetup ==
    /\ pc = "setup" /\ alg = "pathfinder"
    /\ LET model_params == native.nfree
           param_names == PATHFINDER_VARIABLES \o get_parameter_names(native.names)
           num_params == Len(param_names)
       IN  IF model_params = 0
           THEN /\ trace' = trace \o <<"num_free_params">>
                /\ loc' = [loc EXCEPT !.model_params = model_params]
                /\ exc' = ValueError("Model has no parameters.")
                /\ pc' = "exit"
           ELSE /\ trace' = trace \o <<"num_free_params", "param_names">>
                /\ loc' = [loc EXCEPT
                              !.model_params = model_params,
                              !.param_names = param_names,
                              !.out = Zeros(<<loc.output_size, num_params>>)]
                /\ exc' = NoExc
                /\ pc' = "call"
    /\ UNCHANGED <<lib, handles, alg, args, seed, model, native, rc, err, call,
                   result>>

PathfinderCall ==
    /\ pc = "call" /\ alg = "pathfinder"
    /\ LET inits == encode_inits(args.inits, args.num_paths, seed, sep)
       IN  IF ~inits.ok
           THEN /\ exc' = NotReadable
                /\ pc' = "exit"
                /\ UNCHANGED <<call, trace, rc, err>>
           ELSE NativeCall("pathfinder", args.inits,
                    [call EXCEPT !.inits = inits.encoded,
                                 !.inits_none = inits.none,
                                 !.out = loc.out, !.out_size = loc.out.size])
    /\ UNCHANGED <<lib, handles, alg, args, seed, model, native, loc, result>>

PathfinderReturn ==
    /\ pc = "return" /\ alg = "pathfinder"
    /\ result' = [NoResult EXCEPT !.returned = TRUE,
                                  !.param_names = loc.param_names,
                                  !.out = loc.out]
    /\ pc' = "done"
    /\ UNCHANGED <<lib, handles, alg, args, seed, model, native, rc, err, loc,
                   call, exc, trace>>

\* ----------------------------------------------------------------- optimize
Optimize ==
    \E a \in OptimizeArgs :
        /\ Begin("optimize", a, NoExc, NoExc)
        /\ loc' = NoLoc

OptimizeSetup ==
    /\ pc = "setup" /\ alg = "optimize"
    /\ LET param_names == OPTIMIZE_VARIABLES \o get_parameter_names(native.names)
           num_params == Len(param_names)
       IN  /\ trace' = trace \o <<"param_names">>
           /\ loc' = [loc EXCEPT !.param_names = param_names,
                                 !.out = Zeros(<<num_params>>)]
    /\ pc' = "call"
    /\ UNCHANGED <<lib, handles, alg, args, seed, model, native, rc, err, call,
                   exc, result>>

OptimizeCall ==
    /\ pc = "call" /\ alg = "optimize"
    /\ LET inits == encode_inits(args.inits, 1, seed, sep)
       IN  IF ~inits.ok
           THEN /\ exc' = NotReadable
                /\ pc' = "exit"
                /\ UNCHANGED <<call, trace, rc, err>>
           ELSE NativeCall("optimize", args.inits,
                    [call EXCEPT !.inits = inits.encoded,
                                 !.inits_none = inits.none,
                                 !.out = loc.out, !.out_size = loc.out.size])
    /\ UNCHANGED <<lib, handles, alg, args, seed, model, native, loc, result>>

OptimizeReturn ==
    /\ pc = "return" /\ alg = "optimize"
    /\ result' = [NoResult EXCEPT !.returned = TRUE,
                                  !.param_names = loc.param_names,
                                  !.out = loc.out]
    /\ pc' = "done"
    /\ UNCHANGED <<lib, handles, alg, args, seed, model, native, rc, err, loc,
                   call, exc, trace>>

\* ----------------------------------------------------------- laplace_sample
LaplaceValidate(a) ==
    IF a.num_draws < 1 THEN ValueError("num_draws must be at least 1") ELSE NoExc

\* the exception preprocess_laplace_inputs ends with, if any
LaplacePreprocess(a) ==
    LET p == preprocess_laplace_inputs(a.mode)
    IN  IF p.ok THEN NoExc
        ELSE IF p.msg = "validate_readable" THEN NotReadable
        ELSE ValueError(p.msg)

\* the length check against num_params, the fixed names not taken off
ModeLengthWrongNoOffset(mode_array, num_params) ==
    /\ mode_array # None
    /\ mode_array.shape[1] # num_params

\* len(mode_array) != num_params - len(LAPLACE_VARIABLES)
ModeLengthWrong(mode_array, num_params) ==
    /\ mode_array # None
    /\ mode_array.shape[1] # num_params - Len(LAPLACE_VARIABLES)

LaplaceSample ==
    \E a \in LaplaceArgs :
        /\ Begin("laplace_sample", a, LaplaceValidate(a), LaplacePreprocess(a))
        /\ loc' = IF LaplaceValidate(a) # NoExc \/ LaplacePreprocess(a) # NoExc
                  THEN NoLoc
                  ELSE LET p == preprocess_laplace_inputs(a.mode)
                       IN  [NoLoc EXCEPT !.mode_array = p.mode_array,
                                         !.mode_json = p.mode_json,
                                         !.mode_json_none = p.json_none]

LaplaceSetup ==
    /\ pc = "setup" /\ alg = "laplace_sample"
    /\ LET param_names == LAPLACE_VARIABLES \o get_parameter_names(native.names)
           num_params == Len(param_names)
           model_params == native.nfree
       IN  IF ModeLengthWrong(loc.mode_array, num_params)
           THEN /\ trace' = trace \o <<"param_names">>
                /\ loc' = [loc EXCEPT !.param_names = param_names]
                /\ exc' = ValueError("Mode array has incorrect length.")
                /\ pc' = "exit"
           ELSE /\ trace' = trace \o <<"param_names", "num_free_params">>
                /\ loc' = [loc EXCEPT
                              !.param_names = param_names,
                              !.out = Zeros(<<args.num_draws, num_params>>),
                              !.model_params = model_params,
                              !.hessian_out =
                                  IF args.save_hessian
                                  THEN Zeros(<<model_params, model_params>>)
                                  ELSE NoneBuf]
                /\ exc' = NoExc
                /\ pc' = "call"
    /\ UNCHANGED <<lib, handles, alg, args, seed, model, native, rc, err, call,
                   result>>

LaplaceCall ==
    /\ pc = "call" /\ alg = "laplace_sample"
    /\ NativeCall("laplace_sample", None,
           [call EXCEPT !.mode_array = loc.mode_array,
                        !.mode_json = loc.mode_json,
                        !.mode_json_none = loc.mode_json_none,
                        !.out = loc.out, !.out_size = loc.out.size,
                        !.hessian_out = loc.hessian_out])
    /\ UNCHANGED <<lib, handles, alg, args, seed, model, native, loc, result>>

LaplaceReturn ==
    /\ pc = "return" /\ alg = "laplace_sample"
    /\ result' = [NoResult EXCEPT !.returned = TRUE,
                                  !.param_names = loc.param_names,
                                  !.out = loc.out,
                                  !.hessian = IF args.save_hessian
                                              THEN loc.hessian_out ELSE NoneBuf]
    /\ pc' = "done"
    /\ UNCHANGED <<lib, handles, alg, args, seed, model, native, rc, err, loc,
                   call, exc, trace>>

\* ------------------------------------------------------------ specification
Next ==
    \/ ModelInit
    \/ Sample
    \/ GetModelEnter
    \/ SampleSetup
    \/ SampleCall
    \/ CheckReturnCode
    \/ GetModelExit
    \/ SampleReturn
    \/ Pathfinder
    \/ PathfinderSetup
    \/ PathfinderCall
    \/ PathfinderReturn
    \/ Optimize
    \/ OptimizeSetup
    \/ OptimizeCall
    \/ OptimizeReturn
    \/ LaplaceSample
    \/ LaplaceSetup
    \/ LaplaceCall
    \/ LaplaceReturn
    \/ ReturnToCaller

Spec == Init /\ [][Next]_vars

\* ------------------------------------------- _encode_inits on its own inputs
InitElements ==
    {Str(<<123, 233, 125>>), Str(<<97, 28, 98>>), Dict(<<97, 1>>),
     Path(<<112>>, TRUE), Path(<<113>>, FALSE)}

InitLists == UNION {[1..k -> InitElements] : k \in 0..MaxInits}

EncodeInputs ==
    {List(items) : items \in InitLists}
    \cup {None, Output(<<2, 3>>), Dict(<<97, 1, 98, 2>>)}

InitEncode ==
    /\ nModels = 1
    /\ nCapture = 1
    /\ nRegistered = 1
    /\ sep \in {28, 58}
    /\ handles = <<>>
    /\ pc = "encode"
    /\ alg = "none"
    /\ \E i \in EncodeInputs, c \in 0..MaxChains :
          args = [BaseArgs EXCEPT !.inits = i, !.num_chains = c]
    /\ seed = 1
    /\ model = 0
    /\ native = NoNative
    /\ rc = 0
    /\ err = NullErr
    /\ loc = NoLoc
    /\ call = NoCall
    /\ exc = NoExc
    /\ result = NoResult
    /\ trace = <<>>

\* self._encode_inits(inits, num_chains, seed)
EncodeInits ==
    /\ pc = "encode"
    /\ LET r == encode_inits(args.inits, args.num_chains, seed, sep)
       IN  /\ call' = [call EXCEPT !.inits = r.encoded, !.inits_none = r.none]
           /\ exc' = IF r.ok THEN NoExc ELSE NotReadable
    /\ pc' = "encoded"
    /\ UNCHANGED <<lib, handles, alg, args, seed, model, native, rc, err, loc,
                   result, trace>>

NextEncode == EncodeInits

SpecInits == InitEncode /\ [][NextEncode]_vars

\* ------------------------------------------------------------------ claims
InTrace(e) == \E i \in 1..Len(trace) : trace[i] = e

\* the with block of an invoker is being executed
InBody == pc \in {"setup", "call", "check", "exit"}

\* the events of _raise_for_error translating a native error object
BridgeEvents == <<"get_error_message", "get_error_type", "free_error", "raise">>

\* C1: on every exit path after a successful construction the destructor is
\* called on the handle exactly once: while a with block runs its handle has
\* not been destroyed and every earlier handle has been destroyed once; once
\* the block is left every constructed handle has been destroyed exactly once,
\* so constructions and destructor calls are equal in number.
C1_DestroyedExactlyOnce ==
    /\ \A h \in 1..Len(handles) : handles[h] <= 1
    /\ InBody =>
          /\ model = Len(handles)
          /\ handles[model] = 0
          /\ \A h \in 1..(Len(handles) - 1) : handles[h] = 1
    /\ ~InBody =>
          /\ \A h \in 1..Len(handles) : handles[h] = 1
          /\ created = destroyed
    /\ (pc \in {"return", "done"} /\ model # 0) =>
          /\ handles[model] = 1
          /\ trace[Len(trace)] = "destroy_model"

\* a second session has ended with a native failure propagated out of the body
C1_Witness ==
    /\ pc = "done"
    /\ created = 2
    /\ destroyed = 2
    /\ model = 2
    /\ exc.type = "KeyboardInterrupt"
    /\ call.made

\* C2: when the native constructor returns a null handle the invoker ends with
\* the error _raise_for_error translates, the destructor is never called and
\* no further native call is made on a model handle.
C2_NullHandleNoDestructor ==
    (model = 0 /\ InTrace("create_model")) =>
        /\ pc = "done"
        /\ exc.type \in {"RuntimeError", "ValueError", "KeyboardInterrupt"}
        /\ exc = raise_for_error(1, [err EXCEPT !.frees = 0]).exc
        /\ trace[1] = "create_model"
        /\ \A i \in 2..Len(trace) :
              trace[i] \in {"get_error_message", "get_error_type", "free_error",
                            "raise"}
        /\ ~call.made
        /\ created = destroyed

\* a construction failed with an invalid-argument error object
C2_Witness ==
    /\ model = 0
    /\ InTrace("create_model")
    /\ pc = "done"
    /\ exc.type = "ValueError"
    /\ err.contents # 0

SizeViolation ==
    \/ /\ alg = "sample"
       /\ (args.num_chains < 1 \/ args.num_warmup < 0 \/ args.num_samples < 1)
    \/ /\ alg = "pathfinder"
       /\ (args.num_draws < 1 \/ args.num_paths < 1 \/ args.num_multi_draws < 1)
    \/ /\ alg = "laplace_sample"
       /\ args.num_draws < 1

\* C4: a violated size-governing argument makes the invoker fail with a
\* ValueError before the session is acquired: no native constructor call, no
\* native algorithm call and no destructor call is made in that invocation.
C4_SizeViolationBeforeSession ==
    SizeViolation =>
        /\ pc = "done"
        /\ exc.type = "ValueError"
        /\ exc.msg \in {"num_chains must be at least 1",
                        "num_warmup must be non-negative",
                        "num_samples must be at least 1",
                        "num_draws must be at least 1",
                        "num_paths must be at least 1",
                        "num_multi_draws must be at least 1"}
        /\ trace = <<>>
        /\ model = 0
        /\ ~call.made
        /\ call.seed_create = NoSeed

\* sample was called with num_chains = 0 after an earlier session
C4_Witness ==
    /\ alg = "sample"
    /\ args.num_chains = 0
    /\ pc = "done"
    /\ created = 1
    /\ exc = ValueError("num_chains must be at least 1")

\* the names the native model reports, Laplace's fixed names included
LaplaceNumParams == Len(LAPLACE_VARIABLES) + native.nnames

\* laplace_sample holds a numeric mode vector of the wrong length
ModeWrong ==
    /\ alg = "laplace_sample"
    /\ model # 0
    /\ loc.mode_array # None
    /\ loc.mode_array.shape[1] # LaplaceNumParams - 2

SizeMismatch == ValueError("Mode array has incorrect length.")

\* C5, as claimed: a numeric mode vector of the wrong length makes
\* laplace_sample fail with a size-mismatch error before any native call.
C5_Original ==
    (ModeWrong /\ pc = "done") => (exc = SizeMismatch /\ trace = <<>>)

\* C5, amended: with the native model constructed and its parameter names
\* queried (the only way to learn numParamNames), a numeric mode vector of the
\* wrong length makes laplace_sample fail with the size-mismatch ValueError
\* before the free-parameter query and before the native Laplace call; the
\* handle is then destroyed.
C5_ModeLengthBeforeAlgorithm ==
    (ModeWrong /\ pc # "setup") =>
        /\ pc \in {"exit", "done"}
        /\ exc = SizeMismatch
        /\ ~call.made
        /\ loc.out = NoneBuf
        /\ pc = "exit" => trace = <<"create_model", "param_names">>
        /\ pc = "done" => trace = <<"create_model", "param_names", "destroy_model">>

\* a mode vector one element short was refused after the names query
C5_Witness ==
    /\ ModeWrong
    /\ pc = "done"
    /\ exc = SizeMismatch
    /\ native.nnames = 2
    /\ loc.mode_array.shape = <<1>>

\* the draws per chain that sample is to return
SampleDraws ==
    args.num_samples + (IF args.save_warmup THEN args.num_warmup ELSE 0)

\* sample has made its native call
SampleCalled == alg = "sample" /\ call.made

\* C6, as claimed: the buffer sample allocates, passes and returns has chains
\* rows, warmup*saveWarmup + samples draws per row and 7 + numFreeParams
\* columns, numFreeParams being the model's free-parameter count.
C6_Original ==
    SampleCalled =>
        call.out.shape = <<args.num_chains, SampleDraws, 7 + native.nfree>>

\* C6, amended: the buffer has chains rows, warmup*saveWarmup + samples draws
\* per row and 7 + (the number of names tinystan_model_param_names reports)
\* columns, which need not be 7 + the free-parameter count; it is passed with
\* its total element count and returned with as many names as columns.
C6_SampleBufferShape ==
    SampleCalled =>
        /\ call.out.shape = <<args.num_chains, SampleDraws, 7 + native.nnames>>
        /\ call.out_size = args.num_chains * SampleDraws * (7 + native.nnames)
        /\ call.out = loc.out
        /\ result.returned =>
              /\ result.out = call.out
              /\ Len(result.param_names) = 7 + native.nnames
              /\ SubSeq(result.param_names, 1, 7) = HMC_SAMPLER_VARIABLES

\* sample returned saved warmup draws of a model with more names than free
\* parameters
C6_Witness ==
    /\ SampleCalled
    /\ result.returned
    /\ args.save_warmup
    /\ args.num_warmup > 0
    /\ args.num_chains = 2
    /\ native.nnames = 2
    /\ native.nfree = 1

\* C7: the resolved seed is the caller's seed whenever one is supplied, 0
\* included, and a fresh random value only when it is absent; the constructor,
\* the inits expansion and the algorithm call are given that same seed.
C7_SuppliedSeedUsed ==
    seed # NoSeed =>
        /\ args.seed # NoSeed => seed = args.seed
        /\ args.seed = NoSeed => seed \in 0..(U32 - 1)
        /\ call.seed_create \in {NoSeed, seed}
        /\ call.seed_inits \in {NoSeed, seed}
        /\ call.made => (call.seed = seed /\ call.seed_create = seed)

\* inits is a list whose elements all serialize
ListEncoded ==
    /\ pc = "encoded"
    /\ args.inits.kind = "list"
    /\ \A i \in 1..Len(args.inits.items) : encode_stan_json(args.inits.items[i]).ok

\* the serializations of the elements of inits, in order
Serialized ==
    [i \in 1..Len(args.inits.items) |-> encode_stan_json(args.inits.items[i]).bytes]

Contains(bytes, b) == \E i \in 1..Len(bytes) : bytes[i] = b

\* C8, as claimed: for a list of k >= 0 elements, splitting the payload on the
\* delimiter recovers exactly the k serializations, in order.
C8_Original ==
    ListEncoded => Split(call.inits, sep) = Serialized

\* C8, amended: for a list of k >= 1 elements whose serializations do not
\* contain the delimiter, splitting the payload on the delimiter recovers
\* exactly the k serializations, in order; a serialization that contains the
\* delimiter splits into more segments, and the empty list gives the empty
\* payload, which splits into one empty segment.  The payload does not depend
\* on the chain count, and an unreadable path among the elements raises.
C8_JoinSplit ==
    /\ ListEncoded =>
          /\ exc = NoExc
          /\ ~call.inits_none
          /\ Len(Serialized) = 0 =>
                (call.inits = <<>> /\ Split(call.inits, sep) = << <<>> >>)
          /\ (Len(Serialized) >= 1
              /\ \A i \in 1..Len(Serialized) : ~Contains(Serialized[i], sep)) =>
                Split(call.inits, sep) = Serialized
          /\ Len(Serialized) >= 1 =>
                /\ Len(Split(call.inits, sep)) >= Len(Serialized)
                /\ Len(call.inits) >= Len(Serialized) - 1
          /\ \A c \in 0..(MaxChains + 1) :
                encode_inits(args.inits, c, seed, sep).encoded = call.inits
    /\ (pc = "encoded" /\ args.inits.kind = "list" /\ ~ListEncoded) =>
          exc = NotReadable

\* two different elements, free of the delimiter, were joined for one chain
C8_Witness ==
    /\ ListEncoded
    /\ Len(Serialized) = 2
    /\ Serialized[1] # Serialized[2]
    /\ Len(Serialized[1]) = 4
    /\ \A i \in 1..2 : ~Contains(Serialized[i], sep)
    /\ args.num_chains = 1

\* sample is past the checks of init_inv_metric
MetricChecked ==
    /\ alg = "sample"
    /\ pc \in {"call", "check", "exit", "return", "done"}
    /\ InTrace("param_names")

\* a single chain's metric shape
ChainMetricShape ==
    IF args.metric = DENSE THEN <<native.nfree, native.nfree>> ELSE <<native.nfree>>

\* the c-th chain's slice of a broadcast metric
Slice(a, c) ==
    LET n == Prod(ChainMetricShape)
    IN  SubSeq(a.data, (c - 1) * n + 1, c * n)

\* C9: an init_inv_metric of a single chain's shape is broadcast to
\* (chains, ...) with every chain's slice equal to the input; one of shape
\* (chains, ...) is passed unchanged; a null one is passed as null; any other
\* shape fails with a ValueError before the native call, and the session is
\* still released.
C9_InitInvMetric ==
    MetricChecked =>
        LET a == args.init_inv_metric
            passed == loc.init_inv_metric
        IN  /\ call.made => call.init_inv_metric = passed
            /\ a = NoneArray => passed = NoneArray
            /\ (a # NoneArray /\ a.shape = ChainMetricShape) =>
                  /\ passed.shape = <<args.num_chains>> \o ChainMetricShape
                  /\ Len(passed.data) = args.num_chains * Len(a.data)
                  /\ \A c \in 1..args.num_chains : Slice(passed, c) = a.data
                  /\ exc.msg # "Invalid initial metric size."
            /\ (a # NoneArray /\ a.shape = <<args.num_chains>> \o ChainMetricShape) =>
                  /\ passed = a
                  /\ exc.msg # "Invalid initial metric size."
            /\ (/\ a # NoneArray
                /\ a.shape # ChainMetricShape
                /\ a.shape # <<args.num_chains>> \o ChainMetricShape) =>
                  /\ exc = ValueError("Invalid initial metric size.")
                  /\ ~call.made
                  /\ pc \in {"exit", "done"}
                  /\ pc = "done" => handles[model] = 1

\* a dense (2, 2) metric was broadcast over two chains and passed on
C9_Witness ==
    /\ MetricChecked
    /\ call.made
    /\ args.metric = DENSE
    /\ args.num_chains = 2
    /\ native.nfree = 2
    /\ args.init_inv_metric.shape = <<2, 2>>
    /\ call.init_inv_metric.shape = <<2, 2, 2>>

\* C10, as claimed: across any sequence of Model constructions for one library
\* and any number of invoker calls, tinystan_set_print_callback is called once.
C10_Original == nRegistered <= 1

\* C10, amended: every Model construction with capture_stan_prints true calls
\* tinystan_set_print_callback once, also when the library was loaded by an
\* earlier Model, and nothing else calls it: the number of registrations is
\* the number of such constructions (it exceeds one for a second Model), and
\* session acquisitions and invoker calls never register it.
C10_RegisteredPerConstruction ==
    /\ nRegistered = nCapture
    /\ nRegistered <= nModels

\* two Models were constructed, one of them capturing, and a session has ended
C10_Witness ==
    /\ nModels = 2
    /\ nRegistered = 1
    /\ created >= 1
    /\ pc = "done"

\* the error bridge has run on a failed algorithm call that left no error object
AlgorithmNullFailure ==
    /\ call.made
    /\ rc # 0
    /\ err.contents = 0
    /\ pc \in {"exit", "done"}

\* the error bridge has run on a failed construction that left no error object
CreateNullFailure ==
    /\ model = 0
    /\ InTrace("create_model")
    /\ err.contents = 0

\* the bridge has run on an algorithm call that returned 0
AlgorithmSucceeded ==
    /\ call.made
    /\ rc = 0
    /\ pc \in {"exit", "return", "done"}

\* the exception types of the three categories a native error object reports
CategoryTypes == {exception_types[t + 1] : t \in 0..2}

\* C11 as stated: a failure with a null error object frees nothing and raises
\* an unknown-error failure that carries the return code and whose kind is none
\* of the three kinds raised for a native error object; a return code of 0
\* raises nothing.
C11_Original ==
    /\ (AlgorithmNullFailure \/ CreateNullFailure) =>
          /\ err.frees = 0
          /\ ~InTrace("free_error")
          /\ exc # NoExc
          /\ exc.type \notin CategoryTypes
          /\ AlgorithmNullFailure => exc.code = rc
    /\ AlgorithmSucceeded => exc = NoExc

\* C11: a failure with a null error object makes no call on the error object
\* (message, category, free) and raises a RuntimeError, the type also raised
\* for the recoverable-runtime category, told apart from a native-reported error
\* by its "Unknown error" message only; the exception carries the return code
\* of an algorithm call and the truth value of "not model" (True, here 1) for
\* the constructor, which returns a handle and no code.  A return code of 0
\* raises nothing and makes no call on the error object either.
C11_NullErrorIsUnknownRuntimeError ==
    /\ AlgorithmNullFailure =>
          /\ exc = Exc("RuntimeError", "Unknown error, function returned code", rc)
          /\ rc \in FailureCodes
    /\ CreateNullFailure =>
          /\ exc = Exc("RuntimeError", "Unknown error, function returned code", 1)
          /\ trace = <<"create_model", "raise">>
          /\ pc = "done"
    /\ (AlgorithmNullFailure \/ CreateNullFailure) =>
          /\ err = NullErr
          /\ \A i \in 1..Len(trace) :
                trace[i] \notin {"get_error_message", "get_error_type",
                                 "free_error"}
          /\ Cardinality({i \in 1..Len(trace) : trace[i] = "raise"}) = 1
          /\ exc.type = exception_types[1]
          /\ \A e \in NativeErrors : exc.msg # e.msg
    /\ AlgorithmSucceeded =>
          /\ exc = NoExc
          /\ err = NullErr
          /\ \A i \in 1..Len(trace) : trace[i] \notin
                {"get_error_message", "get_error_type", "free_error", "raise"}

\* a laplace_sample call returned the code 2 and left no error object, and the
\* invoker has ended with the exception of the bridge
C11_Witness ==
    /\ AlgorithmNullFailure
    /\ alg = "laplace_sample"
    /\ rc = 2
    /\ exc.code = 2
    /\ pc = "done"

\* the native algorithm entry points
AlgorithmEvents == {"sample", "pathfinder", "optimize", "laplace_sample"}

\* the native calls that are passed a model handle
HandleEvents == {"num_free_params", "param_names"} \cup AlgorithmEvents

\* the positions of the trace holding an event of the set
Positions(events) == {i \in 1..Len(trace) : trace[i] \in events}

\* C12: a model handle is passed to native code only between its successful
\* construction and its destructor call: every query and algorithm call of an
\* invocation follows the construction and precedes the destructor call, and
\* the handle is live while the body may still use it; an invocation makes at
\* most one algorithm call, on the live handle of its own session, and the
\* check of that call's return code, with the raise of a failure, is over
\* when the destructor is called.
C12_HandleUsedWhileLive ==
    /\ \A i \in Positions(HandleEvents) :
          /\ model # 0
          /\ trace[1] = "create_model"
          /\ \A j \in Positions({"destroy_model"}) : i < j
    /\ pc \in {"setup", "call", "check"} =>
          /\ Live(model)
          /\ Positions({"destroy_model"}) = {}
    /\ Cardinality(Positions(AlgorithmEvents)) <= 1
    /\ Cardinality(Positions({"destroy_model"})) <= 1
    /\ call.made <=> Positions(AlgorithmEvents) # {}
    /\ call.made =>
          /\ call.live
          /\ call.model = model
          /\ call.fn = alg
          /\ Positions(AlgorithmEvents) = Positions({alg})
    /\ pc = "check" =>
          /\ call.made
          /\ exc = NoExc
          /\ trace[Len(trace)] = alg
    /\ (call.made /\ ~Live(model)) =>
          /\ pc \in {"return", "done"}
          /\ trace[Len(trace)] = "destroy_model"
          /\ exc = raise_for_error(rc, [err EXCEPT !.frees = 0]).exc
          /\ rc # 0 =>
                \E i \in Positions({"raise"}) :
                   /\ \A j \in Positions(AlgorithmEvents) : j < i
                   /\ \A j \in Positions({"destroy_model"}) : i < j

\* an optimize call on the second session failed, its failure was raised and
\* the handle was destroyed afterwards
C12_Witness ==
    /\ pc = "done"
    /\ alg = "optimize"
    /\ call.made
    /\ rc # 0
    /\ model = 2
    /\ handles[model] = 1
    /\ Len(trace) >= 5

====
